---- MODULE Spec2Model ----
(***************************************************************************)
(* pevents: WIN32 events for POSIX (src/pevents.cpp), built with WFMO.     *)
(*                                                                         *)
(* Threads call CreateEvent / SetEvent / ResetEvent / WaitForEvent /       *)
(* WaitForMultipleEvents / DestroyEvent.  Every action below is one        *)
(* stretch of a call between two points where the thread can block (a      *)
(* mutex acquisition or a condition wait) or where it touches memory       *)
(* without holding the mutex that guards it.                               *)
(***************************************************************************)
EXTENDS Integers, Sequences, FiniteSets, TLC

\* ------------------------------------------------------------------ bounds

\* longest events[] array handed to WaitForMultipleEvents
MaxCount == 2
\* number of SetEvent / ResetEvent calls each signaling thread makes
MaxCalls == 2

\* ------------------------------------------------------- program constants

\* errno value returned by an expired pthread_cond_timedwait
ETIMEDOUT == 110
\* milliseconds == (uint64_t) -1 : wait without deadline
INFINITE == -1
\* WaitIndex / FiredEvent sentinel "no event"
NoIndex == -1

Events == {1, 2}
\* the program's threads: waiting threads, each making one call, and a
\* signaling thread
Waiters == {"w1", "w2", "w3"}
Signalers == {"s1"}
Threads == Waiters \cup Signalers
NoThread == "none"

\* the values of the milliseconds argument: zero, some finite delay, infinite
Timeouts == {0, 1, INFINITE}

RECURSIVE SeqsUpTo(_)
SeqsUpTo(n) == IF n = 0 THEN {<<>>}
               ELSE LET S == SeqsUpTo(n - 1)
                    IN  S \cup {Append(s, e) : s \in {x \in S : Len(x) = n - 1}, e \in Events}
\* the events[] arrays of WaitForMultipleEvents (count >= 1)
EventArrays == SeqsUpTo(MaxCount) \ {<<>>}

VARIABLES
    \* neosmart_event_t_ (per event handle)
    exists,          \* "no" before CreateEvent, "yes", "destroyed" after DestroyEvent
    AutoReset,
    State,
    RegisteredWaits, \* deque of [Waiter, WaitIndex]
    Mutex,           \* holder of event->Mutex, or NoThread
    \* neosmart_wfmo_t_ (one per WaitForMultipleEvents call, named by its caller)
    wfmo,            \* [mem, WaitAll, Status, StillWaiting, RefCount]
    wfmoMutex,       \* holder of wfmo->Mutex, or NoThread
    \* threads
    scenario,        \* the test program run: which thread makes which kind of wait
    pc, call, idx, result, waitIndex, calls,
    aborted,         \* the process died (outcome of undefined behaviour)
    \* history variables (never read by the program)
    requested,       \* initialState asked of CreateEvent, while the event is untouched
    setCount,        \* SetEvent executions per event (CreateEvent's included)
    succCount,       \* successful waits per event
    consumed,        \* per wait call and event: signaled -> non-signaled transitions it caused
    observed,        \* per multi-wait: <<index, event>> pairs seen signaled
    sticky,          \* manual-reset event: SetEvent ran and no ResetEvent since
    stuck,           \* some wait blocked / registered on an event while it was sticky
    released,        \* single waiters that were blocked when a pthread_cond_broadcast ran
    destroys         \* per wait-record: number of Destroy()+delete executions

evars == <<exists, AutoReset, State, RegisteredWaits, Mutex>>
rvars == <<wfmo, wfmoMutex>>
tvars == <<pc, call, idx, result, waitIndex, calls, aborted>>
hvars == <<requested, setCount, succCount, consumed, observed, sticky, stuck, destroys>>
vars == <<evars, rvars, tvars, hvars, scenario, released>>

\* "mixed" and "broadcast": w1 makes a multi-wait and w2 a single wait;
\* "queue": w1 and w2 make multi-waits and w3 a single wait
MultiWaiters == IF scenario = "queue" THEN {"w1", "w2"} ELSE {"w1"}
SingleWaiters == IF scenario = "queue" THEN {"w3"} ELSE {"w2"}
\* the number of SetEvent / ResetEvent calls a signaling thread makes; in
\* "broadcast" it has one more, to reset an event (every event is created
\* signaled), set it and reset it again
CallBudget == IF scenario = "broadcast" THEN MaxCalls + 1 ELSE MaxCalls
\* the threads that make a wait in this run
Callers == MultiWaiters \cup SingleWaiters

NoCall == [op |-> "none"]
NoRecord == [mem |-> "none", WaitAll |-> FALSE, Status |-> 0,
             StillWaiting |-> FALSE, RefCount |-> 0]

\* nothing has been created or called yet
Fresh ==
    /\ exists = [e \in Events |-> "no"]
    /\ AutoReset = [e \in Events |-> FALSE]
    /\ State = [e \in Events |-> FALSE]
    /\ RegisteredWaits = [e \in Events |-> <<>>]
    /\ Mutex = [e \in Events |-> NoThread]
    /\ wfmo = [w \in Waiters |-> NoRecord]
    /\ wfmoMutex = [w \in Waiters |-> NoThread]
    /\ pc = [t \in Threads |-> "idle"]
    /\ call = [t \in Threads |-> NoCall]
    /\ idx = [t \in Threads |-> 0]
    /\ result = [t \in Threads |-> 0]
    /\ waitIndex = [t \in Threads |-> NoIndex]
    /\ calls = [t \in Threads |-> 0]
    /\ aborted = FALSE
    /\ requested = [e \in Events |-> "n/a"]
    /\ setCount = [e \in Events |-> 0]
    /\ succCount = [e \in Events |-> 0]
    /\ consumed = [t \in Waiters |-> [e \in Events |-> 0]]
    /\ observed = [t \in Waiters |-> {}]
    /\ sticky = [e \in Events |-> FALSE]
    /\ stuck = FALSE
    /\ destroys = [w \in Waiters |-> 0]
    /\ released = {}

Init == Fresh /\ scenario = "mixed"

\* ------------------------------------------------------------ CreateEvent

\* Lines 59-88.  The handle is not shared yet, so the call is one step.
\* Line 78 calls SetEvent(event) whatever initialState is; on a fresh event
\* (no waiter, no registration) SetEvent leaves State = true (line 385).
CreateEvent(e, manualReset, initialState) ==
    /\ ~aborted
    /\ UNCHANGED <<scenario, released>>
    /\ exists[e] = "no"
    \* handles are interchangeable: they are numbered in creation order, the
    \* auto-reset ones first
    /\ \A d \in Events : d < e => exists[d] # "no" /\ (AutoReset[d] \/ manualReset)
    /\ exists' = [exists EXCEPT ![e] = "yes"]
    /\ AutoReset' = [AutoReset EXCEPT ![e] = ~manualReset]
    /\ State' = [State EXCEPT ![e] = TRUE]
    /\ requested' = [requested EXCEPT ![e] = IF initialState THEN "signaled" ELSE "non-signaled"]
    /\ setCount' = [setCount EXCEPT ![e] = 1]
    /\ sticky' = [sticky EXCEPT ![e] = manualReset]
    /\ UNCHANGED <<RegisteredWaits, Mutex, rvars, tvars>>
    /\ UNCHANGED <<succCount, consumed, observed, stuck, destroys>>

\* The program creates its events, then runs its threads, then destroys the
\* events: every handle is valid while the threads make their calls.
Ready == \A e \in Events : exists[e] = "yes"

\* ------------------------------------------------- UnlockedWaitForEvent

\* UnlockedWaitForEvent without lines 133-139: a signaled auto-reset event is
\* handed out and left signaled.
UnlockedWaitForEvent_KeepsSignal(state, autoReset, milliseconds) ==
    IF ~state
    THEN IF milliseconds = 0
         THEN [wait |-> FALSE, result |-> ETIMEDOUT, State |-> state]
         ELSE [wait |-> TRUE, result |-> 0, State |-> state]
    ELSE [wait |-> FALSE, result |-> 0, State |-> state]

\* UnlockedWaitForEvent with line 133 an unconditional else: a signaled event
\* is reset whatever its discipline.
UnlockedWaitForEvent_AlwaysResets(state, autoReset, milliseconds) ==
    IF ~state
    THEN IF milliseconds = 0
         THEN [wait |-> FALSE, result |-> ETIMEDOUT, State |-> state]
         ELSE [wait |-> TRUE, result |-> 0, State |-> state]
    ELSE [wait |-> FALSE, result |-> 0, State |-> FALSE]

\* Lines 92-99 and 133-143: the state check made on entry, event->Mutex held.
\* wait = TRUE: the caller goes on to the condition wait of lines 113-125.
UnlockedWaitForEvent(state, autoReset, milliseconds) ==
    IF ~state
    THEN IF milliseconds = 0
         THEN [wait |-> FALSE, result |-> ETIMEDOUT, State |-> state]
         ELSE [wait |-> TRUE, result |-> 0, State |-> state]
    ELSE IF autoReset
         THEN [wait |-> FALSE, result |-> 0, State |-> FALSE]
         ELSE [wait |-> FALSE, result |-> 0, State |-> state]

\* Lines 125-131: what the do-while does with the condition wait's result r.
AfterCondWait(state, autoReset, r) ==
    IF r = 0 /\ ~state
    THEN [wait |-> TRUE, result |-> r, State |-> state]
    ELSE [wait |-> FALSE, result |-> r,
          State |-> IF r = 0 /\ autoReset THEN FALSE ELSE state]

\* history: this call turned e from signaled to non-signaled
Consume(t, e, before, after) ==
    IF before /\ ~after
    THEN [consumed EXCEPT ![t][e] = @ + 1]
    ELSE consumed

\* ------------------------------------------------------------ WaitForEvent

\* WaitForEvent without lines 148 and 158: UnlockedWaitForEvent is called
\* with event->Mutex not taken.
WaitForEvent_NoLock(t, e, milliseconds) ==
    /\ ~aborted
    /\ UNCHANGED <<scenario, released>>
    /\ t \in SingleWaiters /\ pc[t] = "idle" /\ Ready
    /\ LET u == UnlockedWaitForEvent(State[e], AutoReset[e], milliseconds)
       IN  /\ State' = [State EXCEPT ![e] = u.State]
           /\ call' = [call EXCEPT ![t] = [op |-> "WaitForEvent", event |-> e,
                                           milliseconds |-> milliseconds,
                                           found |-> State[e]]]
           /\ pc' = [pc EXCEPT ![t] = IF u.wait THEN "wfe_cwait" ELSE "done"]
           /\ result' = [result EXCEPT ![t] = u.result]
           /\ consumed' = Consume(t, e, State[e], u.State)
           /\ stuck' = (stuck \/ (u.wait /\ sticky[e]))
           /\ succCount' = [succCount EXCEPT ![e] =
                               IF ~u.wait /\ u.result = 0 THEN @ + 1 ELSE @]
    /\ requested' = [requested EXCEPT ![e] = "n/a"]
    /\ UNCHANGED <<exists, AutoReset, RegisteredWaits, Mutex, rvars>>
    /\ UNCHANGED <<idx, waitIndex, calls, aborted>>
    /\ UNCHANGED <<setCount, observed, sticky, destroys>>

\* Lines 146-169, up to the return or to the first condition wait.
WaitForEvent(t, e, milliseconds) ==
    /\ ~aborted
    /\ UNCHANGED <<scenario, released>>
    /\ t \in SingleWaiters /\ pc[t] = "idle" /\ Ready
    /\ Mutex[e] = NoThread
    /\ LET u == UnlockedWaitForEvent(State[e], AutoReset[e], milliseconds)
       IN  /\ State' = [State EXCEPT ![e] = u.State]
           /\ call' = [call EXCEPT ![t] = [op |-> "WaitForEvent", event |-> e,
                                           milliseconds |-> milliseconds,
                                           found |-> State[e]]]
           /\ pc' = [pc EXCEPT ![t] = IF u.wait THEN "wfe_cwait" ELSE "done"]
           /\ result' = [result EXCEPT ![t] = u.result]
           /\ consumed' = Consume(t, e, State[e], u.State)
           /\ stuck' = (stuck \/ (u.wait /\ sticky[e]))
           /\ succCount' = [succCount EXCEPT ![e] =
                               IF ~u.wait /\ u.result = 0 THEN @ + 1 ELSE @]
    /\ requested' = [requested EXCEPT ![e] = "n/a"]
    /\ UNCHANGED <<exists, AutoReset, RegisteredWaits, Mutex, rvars>>
    /\ UNCHANGED <<idx, waitIndex, calls, aborted>>
    /\ UNCHANGED <<setCount, observed, sticky, destroys>>

\* Lines 119/123 return: the thread re-acquires event->Mutex, then lines 125-143.
WaitForEventWake(t) ==
    /\ ~aborted
    /\ UNCHANGED <<scenario, released>>
    /\ pc[t] = "wfe_wake"
    /\ LET e == call[t].event
           u == AfterCondWait(State[e], AutoReset[e], result[t])
       IN  /\ Mutex[e] = NoThread
           /\ State' = [State EXCEPT ![e] = u.State]
           /\ pc' = [pc EXCEPT ![t] = IF u.wait THEN "wfe_cwait" ELSE "done"]
           /\ consumed' = Consume(t, e, State[e], u.State)
           /\ stuck' = (stuck \/ (u.wait /\ sticky[e]))
           /\ succCount' = [succCount EXCEPT ![e] =
                               IF ~u.wait /\ u.result = 0 THEN @ + 1 ELSE @]
    /\ UNCHANGED <<exists, AutoReset, RegisteredWaits, Mutex, rvars>>
    /\ UNCHANGED <<call, idx, result, waitIndex, calls, aborted>>
    /\ UNCHANGED <<requested, setCount, observed, sticky, destroys>>

\* --------------------------------------------------- condition variables

InCondWait(t) == pc[t] \in {"wfe_cwait", "wm_cwait"}
WakePc(t) == IF pc[t] = "wfe_cwait" THEN "wfe_wake" ELSE "wm_wake"

\* pthread_cond_timedwait (lines 119, 320): the deadline passes.
TimedOut(t) ==
    /\ ~aborted
    /\ UNCHANGED <<scenario, released>>
    /\ InCondWait(t)
    /\ call[t].milliseconds # INFINITE
    /\ pc' = [pc EXCEPT ![t] = WakePc(t)]
    /\ result' = [result EXCEPT ![t] = ETIMEDOUT]
    /\ UNCHANGED <<evars, rvars, call, idx, waitIndex, calls, aborted, hvars>>

\* pthread_cond_wait / timedwait may return 0 without any signal.
SpuriousWakeup(t) ==
    /\ ~aborted
    /\ UNCHANGED <<scenario, released>>
    /\ InCondWait(t)
    /\ pc' = [pc EXCEPT ![t] = WakePc(t)]
    /\ result' = [result EXCEPT ![t] = 0]
    /\ UNCHANGED <<evars, rvars, call, idx, waitIndex, calls, aborted, hvars>>

\* threads blocked on event e's CVariable
CondWaiters(e) == {t \in Waiters : pc[t] = "wfe_cwait" /\ call[t].event = e}

\* ------------------------------------------------------------- ResetEvent

\* Lines 524-545.
ResetEvent(t, e) ==
    /\ ~aborted
    /\ UNCHANGED <<scenario, released>>
    /\ t \in Signalers /\ pc[t] = "idle" /\ calls[t] < CallBudget /\ Ready
    /\ Mutex[e] = NoThread
    /\ State' = [State EXCEPT ![e] = FALSE]
    /\ calls' = [calls EXCEPT ![t] = @ + 1]
    /\ sticky' = [sticky EXCEPT ![e] = FALSE]
    /\ requested' = [requested EXCEPT ![e] = "n/a"]
    /\ UNCHANGED <<exists, AutoReset, RegisteredWaits, Mutex, rvars>>
    /\ UNCHANGED <<pc, call, idx, result, waitIndex, aborted>>
    /\ UNCHANGED <<setCount, succCount, consumed, observed, stuck, destroys>>

\* --------------------------------------------------------------- SetEvent

Destroyed(rec) == [rec EXCEPT !.mem = "destroyed"]

\* Deliver with lines 423 / 500 storing index 0 instead of the registration's
\* WaitIndex.
Deliver_FirstIndex(rec, info) ==
    IF rec.WaitAll
    THEN [rec EXCEPT !.Status = @ - 1]
    ELSE [rec EXCEPT !.Status = 0, !.StillWaiting = FALSE]

\* Deliver without lines 424 / 501: a wait-any record that got its event
\* is left marked as still waiting.
Deliver_KeepsWaiting(rec, info) ==
    IF rec.WaitAll
    THEN [rec EXCEPT !.Status = @ - 1]
    ELSE [rec EXCEPT !.Status = info.WaitIndex]

\* Deliver without lines 415 / 492: a wait-all record is signaled with
\* EventsLeft left as it was.
Deliver_NoCount(rec, info) ==
    IF rec.WaitAll
    THEN rec
    ELSE [rec EXCEPT !.Status = info.WaitIndex, !.StillWaiting = FALSE]

\* Lines 413-425 and 490-502: what a signaler writes into a record whose
\* waiter is still waiting.  Status is the union {FiredEvent, EventsLeft}.
Deliver(rec, info) ==
    IF rec.WaitAll
    THEN [rec EXCEPT !.Status = @ - 1]
    ELSE [rec EXCEPT !.Status = info.WaitIndex, !.StillWaiting = FALSE]

\* CurrentWait with line 393 taking back() instead of front().
CurrentWait_Back(t) ==
    LET e == call[t].event
    IN  IF AutoReset[e] THEN RegisteredWaits[e][Len(RegisteredWaits[e])]
        ELSE RegisteredWaits[e][idx[t] + 1]

\* The registration a signaler is looking at: the front of the deque for an
\* auto-reset event (line 393), RegisteredWaits[i] for a manual-reset one (457).
CurrentWait(t) ==
    LET e == call[t].event
    IN  IF AutoReset[e] THEN RegisteredWaits[e][1] ELSE RegisteredWaits[e][idx[t] + 1]

\* SetEventLoop without line 507: the manual-reset walk leaves the
\* registrations it visited in the deque.
SetEventLoop_NoClear(e, rw, i, state) ==
    IF AutoReset[e]
    THEN IF rw # <<>>
         THEN [pc |-> "set_walk", rw |-> rw, idx |-> 0, held |-> TRUE]
         ELSE [pc |-> IF state THEN "set_signal" ELSE "idle", rw |-> rw, idx |-> 0,
               held |-> ~state]
    ELSE IF i < Len(rw)
         THEN [pc |-> "set_walk", rw |-> rw, idx |-> i, held |-> TRUE]
         ELSE [pc |-> "set_broadcast", rw |-> rw, idx |-> 0, held |-> FALSE]

\* The loop heads of lines 391 and 455, event->Mutex held, with the deque rw
\* and the index i: either there is a registration to visit, or the walk is
\* over and the event's own condition variable is next (lines 436-450,
\* 507-518).  An auto-reset event that is not signaled at line 436 returns
\* with event->Mutex still locked.
SetEventLoop(e, rw, i, state) ==
    IF AutoReset[e]
    THEN IF rw # <<>>
         THEN [pc |-> "set_walk", rw |-> rw, idx |-> 0, held |-> TRUE]
         ELSE [pc |-> IF state THEN "set_signal" ELSE "idle", rw |-> rw, idx |-> 0,
               held |-> ~state]
    ELSE IF i < Len(rw)
         THEN [pc |-> "set_walk", rw |-> rw, idx |-> i, held |-> TRUE]
         ELSE [pc |-> "set_broadcast", rw |-> <<>>, idx |-> 0, held |-> FALSE]

\* Lines 428-432 and 505 after the signal: the auto-reset walk pops the entry,
\* unlocks the event and returns; the manual-reset walk goes on with i + 1.
AfterSignalWaiter(t, e) ==
    IF AutoReset[e]
    THEN [pc |-> "idle", rw |-> Tail(RegisteredWaits[e]), idx |-> 0, held |-> FALSE]
    ELSE SetEventLoop(e, RegisteredWaits[e], idx[t] + 1, State[e])

\* the signaler t of event e moves to n; the waiter w (if any) leaves its
\* condition wait with result 0; a call that returns forgets its arguments
Proceed(t, e, n, woken) ==
    /\ pc' = [x \in Threads |-> IF x = t THEN n.pc
                                ELSE IF x \in woken THEN WakePc(x) ELSE pc[x]]
    /\ result' = [x \in Threads |-> IF x \in woken THEN 0 ELSE result[x]]
    /\ idx' = [idx EXCEPT ![t] = n.idx]
    /\ call' = [call EXCEPT ![t] = IF n.pc = "idle" THEN NoCall ELSE [op |-> "SetEvent", event |-> e]]
    /\ RegisteredWaits' = [RegisteredWaits EXCEPT ![e] = n.rw]
    /\ Mutex' = [Mutex EXCEPT ![e] = IF n.held THEN t ELSE NoThread]

\* Lines 377-391 / 455: lock event->Mutex, State = true, reach the loop head.
SetEvent(t, e) ==
    /\ ~aborted
    /\ UNCHANGED <<scenario, released>>
    /\ t \in Signalers /\ pc[t] = "idle" /\ calls[t] < CallBudget /\ Ready
    /\ Mutex[e] = NoThread
    /\ State' = [State EXCEPT ![e] = TRUE]
    /\ calls' = [calls EXCEPT ![t] = @ + 1]
    /\ Proceed(t, e, SetEventLoop(e, RegisteredWaits[e], 0, TRUE), {})
    /\ setCount' = [setCount EXCEPT ![e] = @ + 1]
    /\ sticky' = [sticky EXCEPT ![e] = ~AutoReset[e]]
    /\ requested' = [requested EXCEPT ![e] = "n/a"]
    /\ UNCHANGED <<exists, AutoReset, rvars, waitIndex, aborted>>
    /\ UNCHANGED <<succCount, consumed, observed, stuck, destroys>>

\* Lines 394-425 / 458-502: lock the record's Mutex, drop the event's
\* reference; a record whose waiter has left is destroyed at RefCount 0 or
\* unlocked, and the walk goes on; a live one gets the signal and is unlocked.
SetEventVisit(t) ==
    /\ ~aborted
    /\ UNCHANGED <<scenario, released>>
    /\ pc[t] = "set_walk"
    /\ LET e == call[t].event
           info == CurrentWait(t)
           r == info.Waiter
           rec == [wfmo[r] EXCEPT !.RefCount = @ - 1]
       IN  /\ wfmoMutex[r] = NoThread
           /\ wfmo[r].mem = "live"
           /\ IF ~rec.StillWaiting
              THEN /\ wfmo' = [wfmo EXCEPT ![r] = IF rec.RefCount = 0 THEN Destroyed(rec) ELSE rec]
                   /\ destroys' = [destroys EXCEPT ![r] = IF rec.RefCount = 0 THEN @ + 1 ELSE @]
                   /\ IF AutoReset[e]
                      THEN Proceed(t, e, SetEventLoop(e, Tail(RegisteredWaits[e]), 0, State[e]), {})
                      ELSE Proceed(t, e, SetEventLoop(e, RegisteredWaits[e], idx[t] + 1, State[e]), {})
                   /\ UNCHANGED <<State, consumed, observed>>
              ELSE /\ wfmo' = [wfmo EXCEPT ![r] = Deliver(rec, info)]
                   /\ State' = [State EXCEPT ![e] = IF AutoReset[e] THEN FALSE ELSE @]
                   /\ consumed' = Consume(r, e, State[e], ~AutoReset[e] /\ State[e])
                   /\ observed' = [observed EXCEPT ![r] = @ \cup {<<info.WaitIndex, e>>}]
                   /\ pc' = [pc EXCEPT ![t] = "set_wsignal"]
                   /\ UNCHANGED <<RegisteredWaits, Mutex, idx, call, result, destroys>>
    /\ UNCHANGED <<exists, AutoReset, wfmoMutex, waitIndex, calls, aborted>>
    /\ UNCHANGED <<requested, setCount, succCount, sticky, stuck>>

\* Lines 428-432 / 505: pthread_cond_signal on the record's CVariable, made
\* after the record's Mutex was released.  On a live record it wakes the
\* waiter if it is in its condition wait.  On a destroyed and deleted record
\* the call is undefined: it finds nobody waiting and returns, or the process
\* dies (freed storage handed to another record can only wake that record's
\* waiter early, which SpuriousWakeup covers).
SetEventSignalWaiter(t) ==
    /\ ~aborted
    /\ UNCHANGED <<scenario, released>>
    /\ pc[t] = "set_wsignal"
    /\ LET e == call[t].event
           r == CurrentWait(t).Waiter
       IN  IF wfmo[r].mem = "destroyed"
           THEN /\ aborted' \in BOOLEAN
                /\ IF aborted'
                   THEN UNCHANGED <<pc, result, idx, call, RegisteredWaits, Mutex>>
                   ELSE Proceed(t, e, AfterSignalWaiter(t, e), {})
           ELSE /\ UNCHANGED aborted
                /\ Proceed(t, e, AfterSignalWaiter(t, e), {r} \cap {w \in Waiters : pc[w] = "wm_cwait"})
    /\ UNCHANGED <<exists, AutoReset, State, rvars, waitIndex, calls>>
    /\ UNCHANGED <<requested, setCount, succCount, consumed, observed, sticky, stuck,
                   destroys>>

\* Line 447: pthread_cond_signal(&event->CVariable), event->Mutex released:
\* one of the threads blocked on it, if any, is woken.
SetEventSignal(t) ==
    /\ ~aborted
    /\ UNCHANGED <<scenario, released>>
    /\ pc[t] = "set_signal"
    /\ LET e == call[t].event
           n == [pc |-> "idle", rw |-> RegisteredWaits[e], idx |-> 0, held |-> FALSE]
       IN  \E woken \in SUBSET CondWaiters(e) :
              /\ Cardinality(woken) = IF CondWaiters(e) = {} THEN 0 ELSE 1
              /\ Proceed(t, e, n, woken)
    /\ UNCHANGED <<exists, AutoReset, State, rvars, waitIndex, calls, aborted, hvars>>

\* Line 518: pthread_cond_broadcast(&event->CVariable), event->Mutex released.
SetEventBroadcast(t) ==
    /\ ~aborted
    /\ UNCHANGED scenario
    /\ pc[t] = "set_broadcast"
    /\ LET e == call[t].event
           n == [pc |-> "idle", rw |-> RegisteredWaits[e], idx |-> 0, held |-> FALSE]
       IN  /\ Proceed(t, e, n, CondWaiters(e))
           /\ released' = released \cup CondWaiters(e)
    /\ UNCHANGED <<exists, AutoReset, State, rvars, waitIndex, calls, aborted, hvars>>

\* -------------------------------------------------- WaitForMultipleEvents

\* Line 314 with the wait-all test off by one (EventsLeft <= 1).
Satisfied_OffByOne(rec) ==
    \/ rec.WaitAll /\ rec.Status <= 1
    \/ ~rec.WaitAll /\ rec.Status # NoIndex

\* Line 314: the wait is over.
Satisfied(rec) ==
    \/ rec.WaitAll /\ rec.Status = 0
    \/ ~rec.WaitAll /\ rec.Status # NoIndex

\* number of times event e is listed in the array evs
Listed(evs, e) == Cardinality({k \in 1..Len(evs) : evs[k] = e})

\* history: the events a multi-wait that returns r claims to have obtained
Obtained(evs, waitAll, status, r) ==
    [e \in Events |->
        IF r # 0 THEN 0
        ELSE IF waitAll THEN Listed(evs, e)
        ELSE IF status \in 0..(Len(evs) - 1) /\ evs[status + 1] = e THEN 1
        ELSE 0]

\* Lines 332-354, wfmo->Mutex held: publish the index, leave, drop the
\* waiter's reference, destroy the record or unlock it, return r.
Finalize(t, rec, r) ==
    LET left == [rec EXCEPT !.StillWaiting = FALSE, !.RefCount = @ - 1]
        got == Obtained(call[t].events, rec.WaitAll, rec.Status, r)
    IN  /\ waitIndex' = [waitIndex EXCEPT ![t] = rec.Status]
        /\ wfmo' = [wfmo EXCEPT ![t] = IF left.RefCount = 0 THEN Destroyed(left) ELSE left]
        /\ destroys' = [destroys EXCEPT ![t] = IF left.RefCount = 0 THEN @ + 1 ELSE @]
        /\ wfmoMutex' = [wfmoMutex EXCEPT ![t] = NoThread]
        /\ result' = [result EXCEPT ![t] = r]
        /\ pc' = [pc EXCEPT ![t] = "done"]
        /\ succCount' = [e \in Events |-> succCount[e] + got[e]]

\* Lines 308-330, wfmo->Mutex held, entered with done = FALSE: leave the loop
\* satisfied, or release wfmo->Mutex in a condition wait on wfmo->CVariable.
WaitLoop(t, rec, r) ==
    IF Satisfied(rec)
    THEN Finalize(t, rec, r)
    ELSE /\ wfmo' = [wfmo EXCEPT ![t] = rec]
         /\ wfmoMutex' = [wfmoMutex EXCEPT ![t] = NoThread]
         /\ pc' = [pc EXCEPT ![t] = "wm_cwait"]
         /\ result' = [result EXCEPT ![t] = r]
         /\ UNCHANGED <<waitIndex, destroys, succCount>>

\* Lines 288-330 without the milliseconds == 0 branch of lines 291-295.
AfterRegistration_NoZeroCheck(t, rec, done) ==
    IF done
    THEN Finalize(t, rec, 0)
    ELSE WaitLoop(t, rec, 0)

\* Lines 288-330 after the registration loop ended with the flag done.
AfterRegistration(t, rec, done) ==
    IF done
    THEN Finalize(t, rec, 0)
    ELSE IF call[t].milliseconds = 0
         THEN Finalize(t, rec, ETIMEDOUT)
         ELSE WaitLoop(t, rec, 0)

\* WaitForMultipleEvents with line 211 setting EventsLeft = count - 1.
WaitForMultipleEvents_CountOffByOne(t, events, waitAll, milliseconds) ==
    /\ ~aborted
    /\ UNCHANGED <<scenario, released>>
    /\ t \in MultiWaiters /\ pc[t] = "idle" /\ Ready
    /\ call' = [call EXCEPT ![t] = [op |-> "WaitForMultipleEvents", events |-> events,
                                    waitAll |-> waitAll, milliseconds |-> milliseconds]]
    /\ wfmo' = [wfmo EXCEPT ![t] = [mem |-> "live", WaitAll |-> waitAll,
                                    Status |-> IF waitAll THEN Len(events) - 1 ELSE NoIndex,
                                    StillWaiting |-> TRUE, RefCount |-> 1]]
    /\ waitIndex' = [waitIndex EXCEPT ![t] = NoIndex]
    /\ idx' = [idx EXCEPT ![t] = 0]
    /\ result' = [result EXCEPT ![t] = 0]
    /\ pc' = [pc EXCEPT ![t] = "wm_lock"]
    /\ UNCHANGED <<evars, wfmoMutex, calls, aborted, hvars>>

\* Lines 178-216: a fresh record, its fields written before its Mutex is
\* locked.
WaitForMultipleEvents(t, events, waitAll, milliseconds) ==
    /\ ~aborted
    /\ UNCHANGED <<scenario, released>>
    /\ t \in MultiWaiters /\ pc[t] = "idle" /\ Ready
    /\ call' = [call EXCEPT ![t] = [op |-> "WaitForMultipleEvents", events |-> events,
                                    waitAll |-> waitAll, milliseconds |-> milliseconds]]
    /\ wfmo' = [wfmo EXCEPT ![t] = [mem |-> "live", WaitAll |-> waitAll,
                                    Status |-> IF waitAll THEN Len(events) ELSE NoIndex,
                                    StillWaiting |-> TRUE, RefCount |-> 1]]
    /\ waitIndex' = [waitIndex EXCEPT ![t] = NoIndex]
    /\ idx' = [idx EXCEPT ![t] = 0]
    /\ result' = [result EXCEPT ![t] = 0]
    /\ pc' = [pc EXCEPT ![t] = "wm_lock"]
    /\ UNCHANGED <<evars, wfmoMutex, calls, aborted, hvars>>

\* Lines 218-229: the caller locks the Mutex of its record.
WaitForMultipleEventsLock(t) ==
    /\ ~aborted
    /\ UNCHANGED <<scenario, released>>
    /\ pc[t] = "wm_lock"
    /\ wfmoMutex[t] = NoThread
    /\ wfmoMutex' = [wfmoMutex EXCEPT ![t] = t]
    /\ pc' = [pc EXCEPT ![t] = "wm_register"]
    /\ UNCHANGED <<evars, wfmo, call, calls, idx, result, waitIndex, aborted, hvars>>

\* Lines 231-286, one iteration for events[i] with wfmo->Mutex held: lock
\* events[i]->Mutex, try a zero-timeout wait, count or record the event if
\* that succeeds, else register; after the last iteration lines 288-354 up
\* to the return or the condition wait.
Register(t) ==
    /\ ~aborted
    /\ UNCHANGED <<scenario, released>>
    /\ pc[t] = "wm_register"
    /\ LET i == idx[t]
           events == call[t].events
           e == events[i + 1]
           rec == wfmo[t]
           u == UnlockedWaitForEvent(State[e], AutoReset[e], 0)
           got == IF rec.WaitAll
                  THEN [rec EXCEPT !.Status = @ - 1]
                  ELSE [rec EXCEPT !.Status = i]
           reg == [rec EXCEPT !.RefCount = @ + 1]
           new == IF u.result = 0 THEN got ELSE reg
           break == u.result = 0 /\ ~rec.WaitAll
       IN  /\ Mutex[e] = NoThread
           /\ State' = [State EXCEPT ![e] = u.State]
           /\ consumed' = Consume(t, e, State[e], u.State)
           /\ observed' = [observed EXCEPT ![t] =
                              IF u.result = 0 THEN @ \cup {<<i, e>>} ELSE @]
           /\ RegisteredWaits' = [RegisteredWaits EXCEPT ![e] =
                              IF u.result = 0 THEN @
                              ELSE Append(@, [Waiter |-> t, WaitIndex |-> i])]
           /\ stuck' = (stuck \/ (u.result # 0 /\ sticky[e]))
           /\ requested' = [requested EXCEPT ![e] = "n/a"]
           /\ IF break \/ i + 1 = Len(events)
              THEN /\ AfterRegistration(t, new, break)
                   /\ UNCHANGED idx
              ELSE /\ wfmo' = [wfmo EXCEPT ![t] = new]
                   /\ idx' = [idx EXCEPT ![t] = i + 1]
                   /\ UNCHANGED <<wfmoMutex, pc, result, waitIndex, destroys, succCount>>
    /\ UNCHANGED <<exists, AutoReset, Mutex, call, calls, aborted>>
    /\ UNCHANGED <<setCount, sticky>>

\* Lines 320/324 return: re-acquire wfmo->Mutex; a non-zero result breaks out
\* of the loop (327), zero goes round it (308-316).
WaitForMultipleEventsWake(t) ==
    /\ ~aborted
    /\ UNCHANGED <<scenario, released>>
    /\ pc[t] = "wm_wake"
    /\ wfmoMutex[t] = NoThread
    /\ IF result[t] # 0
       THEN Finalize(t, wfmo[t], result[t])
       ELSE WaitLoop(t, wfmo[t], 0)
    /\ UNCHANGED <<evars, call, idx, calls, aborted>>
    /\ UNCHANGED <<requested, setCount, consumed, observed, sticky, stuck>>

\* ----------------------------------------------------------- DestroyEvent

\* no thread is inside a call
Quiescent == \A t \in Threads : pc[t] \in {"idle", "done"}

\* Lines 358-375.  The caller destroys an event nobody is using; deleting the
\* event releases its deque and the registrations in it, not the records
\* they point to.
DestroyEvent(e) ==
    /\ ~aborted
    /\ UNCHANGED <<scenario, released>>
    /\ exists[e] = "yes" /\ Quiescent
    /\ \A d \in Events : exists[d] # "no" /\ (d < e => exists[d] = "destroyed")
    /\ Mutex[e] = NoThread
    /\ exists' = [exists EXCEPT ![e] = "destroyed"]
    /\ RegisteredWaits' = [RegisteredWaits EXCEPT ![e] = <<>>]
    /\ requested' = [requested EXCEPT ![e] = "n/a"]
    /\ UNCHANGED <<AutoReset, State, Mutex, rvars, tvars>>
    /\ UNCHANGED <<setCount, succCount, consumed, observed, sticky, stuck,
                   destroys>>

\* ------------------------------------------------------------------ system

Next ==
    \/ \E e \in Events, m \in BOOLEAN, i \in BOOLEAN : CreateEvent(e, m, i)
    \/ \E e \in Events : DestroyEvent(e)
    \/ \E t \in Threads, e \in Events : SetEvent(t, e)
    \/ \E t \in Threads : SetEventVisit(t)
    \/ \E t \in Threads : SetEventSignalWaiter(t)
    \/ \E t \in Threads : SetEventSignal(t)
    \/ \E t \in Threads : SetEventBroadcast(t)
    \/ \E t \in Threads, e \in Events : ResetEvent(t, e)
    \/ \E t \in Threads, e \in Events, ms \in Timeouts : WaitForEvent(t, e, ms)
    \/ \E t \in Threads : WaitForEventWake(t)
    \/ \E t \in Threads, a \in EventArrays, all \in BOOLEAN, ms \in Timeouts :
          WaitForMultipleEvents(t, a, all, ms)
    \/ \E t \in Threads : WaitForMultipleEventsLock(t)
    \/ \E t \in Threads : Register(t)
    \/ \E t \in Threads : WaitForMultipleEventsWake(t)
    \/ \E t \in Threads : TimedOut(t)
    \/ \E t \in Threads : SpuriousWakeup(t)

Spec == Init /\ [][Next]_vars

\* Two threads queue multi-waits (wait-any, no deadline) on the events, a
\* third one makes a single wait without deadline, the signaling thread sets
\* and resets.
InitQueue == Fresh /\ scenario = "queue"

NextQueue ==
    \/ \E e \in Events, m \in BOOLEAN, i \in BOOLEAN : CreateEvent(e, m, i)
    \/ \E t \in Threads, e \in Events : SetEvent(t, e)
    \/ \E t \in Threads : SetEventVisit(t)
    \/ \E t \in Threads : SetEventSignalWaiter(t)
    \/ \E t \in Threads : SetEventSignal(t)
    \/ \E t \in Threads : SetEventBroadcast(t)
    \/ \E t \in Threads, e \in Events : ResetEvent(t, e)
    \/ \E t \in Threads, e \in Events : WaitForEvent(t, e, INFINITE)
    \/ \E t \in Threads : WaitForEventWake(t)
    \/ \E t \in Threads, a \in EventArrays : WaitForMultipleEvents(t, a, FALSE, INFINITE)
    \/ \E t \in Threads : WaitForMultipleEventsLock(t)
    \/ \E t \in Threads : Register(t)
    \/ \E t \in Threads : WaitForMultipleEventsWake(t)
    \/ \E t \in Threads : SpuriousWakeup(t)

SpecQueue == InitQueue /\ [][NextQueue]_vars

\* One thread makes a multi-wait and one a single wait on manual-reset
\* events, which the signaling thread sets and resets.
InitBroadcast == Fresh /\ scenario = "broadcast"

NextBroadcast ==
    \/ \E e \in Events, i \in BOOLEAN : CreateEvent(e, TRUE, i)
    \/ \E t \in Threads, e \in Events : SetEvent(t, e)
    \/ \E t \in Threads : SetEventVisit(t)
    \/ \E t \in Threads : SetEventSignalWaiter(t)
    \/ \E t \in Threads : SetEventBroadcast(t)
    \/ \E t \in Threads, e \in Events : ResetEvent(t, e)
    \/ \E t \in Threads, e \in Events, ms \in Timeouts : WaitForEvent(t, e, ms)
    \/ \E t \in Threads : WaitForEventWake(t)
    \/ \E t \in Threads, a \in EventArrays, all \in BOOLEAN, ms \in Timeouts :
          WaitForMultipleEvents(t, a, all, ms)
    \/ \E t \in Threads : WaitForMultipleEventsLock(t)
    \/ \E t \in Threads : Register(t)
    \/ \E t \in Threads : WaitForMultipleEventsWake(t)
    \/ \E t \in Threads : TimedOut(t)
    \/ \E t \in Threads : SpuriousWakeup(t)

SpecBroadcast == InitBroadcast /\ [][NextBroadcast]_vars

\* ------------------------------------------------------------------ claims

Done(t) == pc[t] = "done"
IsMulti(t) == call[t].op = "WaitForMultipleEvents"
IsSingle(t) == call[t].op = "WaitForEvent"
Count(t) == Len(call[t].events)
Distinct(evs) == \A j, k \in 1..Len(evs) : evs[j] = evs[k] => j = k
Created(e) == exists[e] # "no"

\* C1: an event publishes the initial state asked of CreateEvent: a
\* zero-timeout WaitForEvent made on it before any thread has called SetEvent
\* (or anything else) on it returns 0 if initialState was true and ETIMEDOUT
\* if it was false, for manual-reset and auto-reset events alike.
C1_CreateEventPublishesInitialState ==
    [][\A t \in SingleWaiters :
          (pc[t] = "idle" /\ pc'[t] = "done" /\ call'[t].milliseconds = 0
              /\ requested[call'[t].event] # "n/a")
          => (result'[t] = IF requested[call'[t].event] = "signaled" THEN 0 ELSE ETIMEDOUT)]_vars

\* C2: for every auto-reset event the number of successful waits that
\* obtained it (a single wait returning 0, a wait-any returning its index, a
\* wait-all counting it) never exceeds the number of SetEvent executions on it,
\* the one inside CreateEvent included.
C2_AutoResetSingleConsumer ==
    \A e \in Events : (Created(e) /\ AutoReset[e]) => succCount[e] <= setCount[e]

\* C2 witness: one auto-reset event set twice (by CreateEvent and by a
\* thread) has satisfied both the single wait and the multi-wait.
C2_Witness ==
    \E e \in Events :
        /\ Created(e) /\ AutoReset[e] /\ setCount[e] = 2 /\ succCount[e] = 2
        /\ \A t \in Callers : Done(t) /\ result[t] = 0

\* C3: a wait that returns ETIMEDOUT has not turned any auto-reset event from
\* signaled to non-signaled, in its registration pass or through a SetEvent
\* that delivered to its record.
C3_TimeoutConsumesNothing ==
    \A t \in Waiters :
        (Done(t) /\ result[t] = ETIMEDOUT) => \A e \in Events : consumed[t][e] = 0

\* the thread holding the mutex that t is trying to lock, or NoThread
BlockedOn(t) ==
    IF pc[t] = "wm_register" THEN Mutex[call[t].events[idx[t] + 1]]
    ELSE IF pc[t] = "set_walk" THEN wfmoMutex[CurrentWait(t).Waiter]
    ELSE IF pc[t] = "wfe_wake" THEN Mutex[call[t].event]
    ELSE IF pc[t] = "wm_wake" THEN wfmoMutex[t]
    ELSE NoThread

\* C4: the locking protocol is deadlock-free: there is never a set of threads
\* each blocked on a mutex held by another thread of the set.
C4_NoLockCycle ==
    ~ \E S \in SUBSET Threads :
        /\ S # {}
        /\ \A t \in S : BlockedOn(t) \in S

\* the records a signaler has unlocked and not yet signalled (lines 427-428,
\* 504-505)
PendingSignal == {CurrentWait(t).Waiter : t \in {x \in Signalers : pc[x] = "set_wsignal"}}
\* the records some event's RegisteredWaits refers to
Registered ==
    UNION {{RegisteredWaits[e][k].Waiter : k \in 1..Len(RegisteredWaits[e])} : e \in Events}

\* C5: a wait-record is destroyed at most once and only at RefCount 0, and it
\* is live with RefCount > 0 for as long as an entry of some RegisteredWaits
\* refers to it or a SetEvent has still to signal its condition variable, so
\* that nobody uses it after its destruction.
C5_SafeTeardown ==
    /\ \A r \in Waiters : destroys[r] <= 1
    /\ \A r \in Waiters : wfmo[r].mem = "destroyed" => wfmo[r].RefCount = 0
    /\ \A r \in Registered \cup PendingSignal :
          wfmo[r].mem = "live" /\ wfmo[r].RefCount > 0

\* C6: a wait-any that returns 0 names an index i in [0, count) whose event
\* it saw signaled, at registration or by a SetEvent delivered through its
\* registration at index i; it never returns 0 with index -1.
C6_WaitAnyNamesObservedEvent ==
    \A t \in MultiWaiters :
        (Done(t) /\ ~call[t].waitAll /\ result[t] = 0)
        => /\ waitIndex[t] \in 0..(Count(t) - 1)
           /\ <<waitIndex[t], call[t].events[waitIndex[t] + 1]>> \in observed[t]

\* C6 witness: a wait-any over two events returned 0 naming the second one,
\* the first one being still registered (it was not signaled).
C6_Witness ==
    \E t \in MultiWaiters :
        /\ Done(t) /\ ~call[t].waitAll /\ result[t] = 0 /\ waitIndex[t] = 1
        /\ call[t].milliseconds = INFINITE
        /\ t \in Registered

\* C7: a wait-all over distinct events that returns 0 saw each of them
\* signaled during the call and turned each auto-reset one among them from
\* signaled to non-signaled exactly once.
C7_WaitAllObservedAndConsumedOnce ==
    \A t \in MultiWaiters :
        (Done(t) /\ call[t].waitAll /\ result[t] = 0 /\ Distinct(call[t].events))
        => \A k \in 1..Count(t) :
              /\ <<k - 1, call[t].events[k]>> \in observed[t]
              /\ AutoReset[call[t].events[k]] => consumed[t][call[t].events[k]] = 1

\* C7 witness: a wait-all over two auto-reset events returned 0 although one
\* of them is now signaled again.
C7_Witness ==
    \E t \in MultiWaiters :
        /\ Done(t) /\ call[t].waitAll /\ result[t] = 0
        /\ Count(t) = 2 /\ Distinct(call[t].events)
        /\ \A e \in Events : AutoReset[e]
        /\ setCount[call[t].events[2]] = 2

\* C8: the index handed back by WaitForMultipleEvents is -1 whenever the call
\* returns ETIMEDOUT and whenever it was made with waitAll = true; it differs
\* from -1 only for a wait-any that returns 0.
C8_FiredIndexSentinel ==
    \A t \in MultiWaiters :
        (Done(t) /\ (result[t] = ETIMEDOUT \/ call[t].waitAll)) => waitIndex[t] = NoIndex

\* C9: once SetEvent has run on a manual-reset event and until a ResetEvent,
\* the event stays signaled whatever waits are made on it, and no wait blocks
\* in a condition wait or registers on its account.
C9_ManualResetSticky ==
    /\ ~stuck
    /\ \A e \in Events : sticky[e] => (~AutoReset[e] /\ State[e])

\* C9 witness: a manual-reset event set by a thread has satisfied the single
\* wait and the multi-wait and is still signaled.
C9_Witness ==
    \E e \in Events :
        /\ sticky[e] /\ State[e] /\ setCount[e] = 2 /\ succCount[e] = 2
        /\ \A t \in Callers : Done(t) /\ result[t] = 0

\* the registration pass of the multi-wait t has satisfied it
SatisfiedAtRegistration(t) ==
    IF call[t].waitAll
    THEN \A k \in 1..Count(t) : <<k - 1, call[t].events[k]>> \in observed[t]
    ELSE observed[t] # {}

\* C10: a wait made with milliseconds = 0 never enters a condition wait; a
\* WaitForEvent that found its event non-signaled returns ETIMEDOUT and leaves
\* the state as it was; a WaitForMultipleEvents that its registration pass did
\* not satisfy returns ETIMEDOUT.
C10_ZeroTimeout ==
    \A t \in Waiters :
        (call[t].op # "none" /\ call[t].milliseconds = 0)
        => /\ pc[t] \notin {"wfe_cwait", "wfe_wake", "wm_cwait", "wm_wake"}
           /\ (Done(t) /\ IsSingle(t) /\ ~call[t].found)
              => (result[t] = ETIMEDOUT /\ consumed[t][call[t].event] = 0)
           /\ (Done(t) /\ IsMulti(t) /\ ~SatisfiedAtRegistration(t))
              => result[t] = ETIMEDOUT

\* C10 witness: both waits were made with a zero timeout on non-signaled
\* events and returned ETIMEDOUT; the multi-wait left a registration behind.
C10_Witness ==
    /\ \A t \in Callers : Done(t) /\ call[t].milliseconds = 0 /\ result[t] = ETIMEDOUT
    /\ \E t \in MultiWaiters : observed[t] = {} /\ t \in Registered
    /\ \E t \in SingleWaiters : ~call[t].found

\* ------------------------------------------------------------- scheduling

\* Every thread that is inside a call and not blocked goes on running: the
\* steps of SetEvent, of the registration pass, and of a waiter that was woken
\* or timed out are taken once they are possible.  Nothing obliges a thread to
\* make a new call, a condition wait to return spuriously, or a deadline to be
\* finite.
Fairness ==
    \A t \in Threads :
        /\ WF_vars(SetEventVisit(t))
        /\ WF_vars(SetEventSignalWaiter(t))
        /\ WF_vars(SetEventSignal(t))
        /\ WF_vars(SetEventBroadcast(t))
        /\ WF_vars(WaitForMultipleEventsLock(t))
        /\ WF_vars(Register(t))
        /\ WF_vars(WaitForMultipleEventsWake(t))
        /\ WF_vars(WaitForEventWake(t))

FairSpec == Init /\ [][Next]_vars /\ Fairness

\* t is inside a wait without deadline that e can satisfy: a WaitForEvent on
\* e, or a wait-any listing e
InfiniteWaitOn(t, e) ==
    /\ t \in Callers /\ pc[t] \notin {"idle", "done"}
    /\ call[t].milliseconds = INFINITE
    /\ \/ IsSingle(t) /\ call[t].event = e
       \/ IsMulti(t) /\ ~call[t].waitAll /\ Listed(call[t].events, e) > 0

\* a SetEvent has run on e and its signal is still there (e is signaled, or
\* the signal is in the record of t, which the signaler has yet to wake), no
\* thread can call ResetEvent any more, and every other waiting thread has
\* returned
SetAndLeftAlone(t, e) ==
    /\ \/ State[e]
       \/ \E s \in Signalers : /\ pc[s] = "set_wsignal" /\ call[s].event = e
                                /\ CurrentWait(s).Waiter = t
    /\ \A s \in Signalers : calls[s] = MaxCalls
    /\ \A o \in Callers \ {t} : Done(o)

\* C11: under fair scheduling a wait without deadline on an event (a
\* WaitForEvent, or a wait-any listing it) returns 0 once SetEvent has been
\* called on the event before or during the wait, no ResetEvent follows and
\* no other waiter competes for the signal.
C11_InfiniteWaitReturns ==
    \A t \in Waiters, e \in Events :
        (InfiniteWaitOn(t, e) /\ SetAndLeftAlone(t, e)) ~> (Done(t) /\ result[t] = 0)

\* every event has been destroyed (DestroyEvent runs only once all calls
\* have returned)
AllDestroyed == \A e \in Events : exists[e] = "destroyed"

\* C12: once every WaitForMultipleEvents call has returned and every event
\* has been destroyed, every wait-record that was allocated has been
\* destroyed, exactly once.
C12_NoLeak ==
    AllDestroyed => \A r \in Waiters : wfmo[r].mem # "none" => (wfmo[r].mem = "destroyed" /\ destroys[r] = 1)

\* the signaler s is walking RegisteredWaits, event->Mutex held
Walking(s) == pc[s] \in {"set_walk", "set_wsignal"}
\* no multi-wait is in progress
AllWaitsReturned == \A t \in MultiWaiters : pc[t] \in {"idle", "done"}

\* C13: a SetEvent that finds registrations walks them and never adds one;
\* when its walk ends it has removed at least one entry; once every
\* multi-wait has returned it delivers to no record and ends its walk only
\* with the deque empty; for each stale registration it visits it drops one
\* reference and destroys the record exactly when RefCount reaches 0.
C13_RegistrationCleanup ==
    [][\A s \in Signalers, e \in Events :
          /\ (pc[s] = "idle" /\ setCount'[e] = setCount[e] + 1 /\ RegisteredWaits[e] # <<>>)
             => (Walking(s)' /\ call'[s].event = e)
          /\ (Walking(s) /\ call[s].event = e)
             => LET r == CurrentWait(s).Waiter
                    moved == \/ pc'[s] # pc[s] \/ idx'[s] # idx[s]
                             \/ RegisteredWaits'[e] # RegisteredWaits[e]
                IN  /\ Len(RegisteredWaits'[e]) <= Len(RegisteredWaits[e])
                    /\ ~Walking(s)' => Len(RegisteredWaits'[e]) < Len(RegisteredWaits[e])
                    /\ (pc[s] = "set_walk" /\ AllWaitsReturned)
                       => /\ pc'[s] # "set_wsignal"
                          /\ ~Walking(s)' => RegisteredWaits'[e] = <<>>
                    /\ (pc[s] = "set_walk" /\ moved /\ ~wfmo[r].StillWaiting)
                       => /\ wfmo'[r].RefCount = wfmo[r].RefCount - 1
                          /\ (wfmo'[r].mem = "destroyed") = (wfmo'[r].RefCount = 0)]_vars

\* C13 witness: a multi-wait registered twice, found nothing and timed out;
\* a later SetEvent emptied the deques and destroyed its record.
C13_Witness ==
    \E t \in MultiWaiters :
        /\ Done(t) /\ result[t] = ETIMEDOUT /\ Count(t) = 2 /\ observed[t] = {}
        /\ wfmo[t].mem = "destroyed"
        /\ \A e \in Events : RegisteredWaits[e] = <<>>
        /\ \A s \in Signalers : pc[s] = "idle"

\* positions in e's deque of the registrations whose waiter is still waiting
LiveAt(e) == {k \in 1..Len(RegisteredWaits[e]) : wfmo[RegisteredWaits[e][k].Waiter].StillWaiting}
\* the earliest of them
Earliest(e) == CHOOSE k \in LiveAt(e) : \A j \in LiveAt(e) : k <= j
\* the records with a live registration on e
LiveWaiters(e) == {RegisteredWaits[e][k].Waiter : k \in LiveAt(e)}

\* C14: a SetEvent on an auto-reset event that delivers to a record delivers
\* to the earliest live registration of the deque, with its own index, and to
\* no other record; it leaves the event non-signaled, then wakes that waiter
\* only, removes that registration only and returns: the other registered
\* waiters stay as they are, queued in the same order, and a thread blocked
\* in WaitForEvent on the event is not woken.
C14_AutoResetReleasesEarliest ==
    [][\A s \in Signalers :
          (pc[s] \in {"set_walk", "set_wsignal"} /\ AutoReset[call[s].event] /\ pc'[s] # pc[s])
          => LET e == call[s].event
             IN  /\ (pc'[s] = "set_wsignal")
                    => /\ LiveAt(e) # {}
                       /\ LET info == RegisteredWaits[e][Earliest(e)]
                          IN  /\ ~wfmo'[info.Waiter].StillWaiting
                              /\ wfmo'[info.Waiter].Status = info.WaitIndex
                              /\ \A x \in Waiters \ {info.Waiter} : wfmo'[x] = wfmo[x]
                       /\ ~State'[e]
                       /\ RegisteredWaits' = RegisteredWaits
                       /\ pc' = [pc EXCEPT ![s] = "set_wsignal"]
                 /\ (pc[s] = "set_wsignal")
                    => /\ pc'[s] = "idle"
                       /\ ~State'[e]
                       /\ RegisteredWaits' = [RegisteredWaits EXCEPT ![e] = Tail(@)]
                       /\ wfmo' = wfmo
                       /\ \A x \in Threads \ {s, RegisteredWaits[e][1].Waiter} : pc'[x] = pc[x]]_vars

\* C14 witness: two wait-anys were registered on a non-signaled auto-reset
\* event and a thread was blocked in WaitForEvent on it; after one SetEvent
\* one wait-any has returned 0, the other is still blocked with its
\* registration at the front of the deque, the single waiter is still
\* blocked, and the event is non-signaled.
C14_Witness ==
    \E e \in Events, a \in MultiWaiters, b \in MultiWaiters :
        /\ a # b /\ AutoReset[e] /\ ~State[e]
        /\ \A s \in Signalers : pc[s] = "idle" /\ calls[s] = MaxCalls
        /\ Done(a) /\ result[a] = 0 /\ call[a].events[waitIndex[a] + 1] = e
        /\ pc[b] = "wm_cwait" /\ LiveWaiters(e) = {b} /\ RegisteredWaits[e][1].Waiter = b
        /\ \E x \in SingleWaiters : pc[x] = "wfe_cwait" /\ call[x].event = e

\* number of entries, over all events' RegisteredWaits, that refer to record r
Entries(r) ==
    Cardinality(UNION {{<<e, k>> : k \in {j \in 1..Len(RegisteredWaits[e]) :
                                              RegisteredWaits[e][j].Waiter = r}} :
                       e \in Events})
\* the waiter of record r has not finalized yet (lines 332-335)
Waiting(r) == pc[r] \in {"wm_lock", "wm_register", "wm_cwait", "wm_wake"}

\* C15: whenever neither its mutex nor any event mutex is held, a live
\* wait-record's RefCount is 1 for its waiter, if that has not finalized yet,
\* plus the number of RegisteredWaits entries that refer to it.
C15_RefCountAccounting ==
    \A r \in Waiters :
        (wfmo[r].mem = "live" /\ wfmoMutex[r] = NoThread /\ \A e \in Events : Mutex[e] = NoThread)
        => wfmo[r].RefCount = (IF Waiting(r) THEN 1 ELSE 0) + Entries(r)

\* C16: the EventsLeft of a wait-all record starts at count, never
\* increases and is never negative (the assertions of lines 261, 416 and 493
\* hold), whether or not the waiter has timed out and whether or not an event
\* is listed twice.
C16_EventsLeftBounded ==
    [][\A r \in Waiters :
          /\ (wfmo[r].mem = "none" /\ wfmo'[r].mem = "live" /\ wfmo'[r].WaitAll)
             => wfmo'[r].Status = Len(call'[r].events)
          /\ (wfmo[r].mem = "live" /\ wfmo[r].WaitAll)
             => (wfmo'[r].Status <= wfmo[r].Status /\ wfmo'[r].Status >= 0)]_vars

\* C16 witness: a wait-all listing one event twice consumed it once,
\* registered once and timed out; a later SetEvent on the event found the
\* stale registration and destroyed the record, EventsLeft still 1.
C16_Witness ==
    \E t \in MultiWaiters :
        /\ Done(t) /\ call[t].waitAll /\ result[t] = ETIMEDOUT
        /\ Count(t) = 2 /\ ~Distinct(call[t].events)
        /\ consumed[t][call[t].events[1]] = 1
        /\ setCount[call[t].events[1]] = 2
        /\ wfmo[t].mem = "destroyed" /\ wfmo[t].Status = 1

RECURSIVE TotalConsumed(_, _)
\* number of signaled -> non-signaled transitions the wait of t caused on the
\* events of S
TotalConsumed(t, S) ==
    IF S = {} THEN 0
    ELSE LET e == CHOOSE x \in S : TRUE
         IN  consumed[t][e] + TotalConsumed(t, S \ {e})

\* C17: the FiredEvent of a wait-any record, once it names an event, is never
\* assigned again; a signaler that finds StillWaiting = false drops its
\* reference and leaves its event's state and the record's status alone; so a
\* wait-any call resets at most one event.
C17_WaitAnyFiresOnce ==
    /\ [](\A t \in Waiters :
             (IsMulti(t) /\ ~call[t].waitAll) => TotalConsumed(t, Events) <= 1)
    /\ [][/\ \A r \in Waiters :
                (wfmo[r].mem = "live" /\ ~wfmo[r].WaitAll /\ wfmo[r].Status # NoIndex)
                => wfmo'[r].Status = wfmo[r].Status
          /\ \A s \in Signalers :
                (pc[s] = "set_walk" /\ ~wfmo[CurrentWait(s).Waiter].StillWaiting)
                => LET e == call[s].event
                       r == CurrentWait(s).Waiter
                   IN  /\ State'[e] = State[e]
                       /\ wfmo'[r].Status = wfmo[r].Status
                       /\ (pc'[s] # pc[s] \/ idx'[s] # idx[s]
                              \/ RegisteredWaits'[e] # RegisteredWaits[e])
                          => (consumed' = consumed /\ wfmo'[r].RefCount = wfmo[r].RefCount - 1)]_vars

\* C17 witness: a wait-any over two auto-reset events registered on the
\* first, found the second signaled and returned 0 having reset it; a later
\* SetEvent on the first found the stale registration, removed it and left
\* the event signaled.
C17_Witness ==
    \E t \in MultiWaiters :
        /\ Done(t) /\ ~call[t].waitAll /\ result[t] = 0 /\ waitIndex[t] = 1
        /\ Distinct(call[t].events) /\ \A e \in Events : AutoReset[e]
        /\ consumed[t][call[t].events[2]] = 1 /\ consumed[t][call[t].events[1]] = 0
        /\ State[call[t].events[1]] /\ setCount[call[t].events[1]] = 2
        /\ wfmo[t].mem = "destroyed" /\ t \notin Registered

\* C18: a SetEvent on a manual-reset event visits every registration in
\* turn, gives each live wait-any record its own index and decrements each
\* live wait-all record once per registration, ends with RegisteredWaits
\* empty and the event signaled; and every thread that was blocked in
\* WaitForEvent on the event when the broadcast was made returns 0, without
\* blocking again.
C18_ManualResetReleasesAll ==
    /\ [](\A t \in released : pc[t] # "wfe_cwait" /\ (Done(t) => result[t] = 0))
    /\ [][\A s \in Signalers :
             LET e == call[s].event
                 moved == pc'[s] # pc[s] \/ idx'[s] # idx[s]
             IN  (pc[s] \in {"set_walk", "set_wsignal", "set_broadcast"} /\ ~AutoReset[e] /\ moved)
                 => /\ (pc[s] = "set_walk")
                       => LET info == RegisteredWaits[e][idx[s] + 1]
                              rec == wfmo[info.Waiter]
                          IN  rec.StillWaiting
                              => /\ pc'[s] = "set_wsignal"
                                 /\ wfmo'[info.Waiter].Status =
                                       IF rec.WaitAll THEN rec.Status - 1 ELSE info.WaitIndex
                    /\ (pc[s] # "set_broadcast" /\ pc'[s] # "set_wsignal")
                       => \/ /\ pc'[s] = "set_walk" /\ idx'[s] = idx[s] + 1
                             /\ RegisteredWaits'[e] = RegisteredWaits[e]
                          \/ /\ pc'[s] = "set_broadcast" /\ idx[s] + 1 = Len(RegisteredWaits[e])
                             /\ RegisteredWaits'[e] = <<>>
                    /\ (pc[s] = "set_broadcast")
                       => /\ pc'[s] = "idle" /\ State'[e] /\ RegisteredWaits'[e] = <<>>
                          /\ \A t \in CondWaiters(e) : pc'[t] = "wfe_wake" /\ result'[t] = 0]_vars

\* thread x takes this step (a thread that is merely woken does not)
Acts(x) ==
    \/ pc'[x] # pc[x] /\ ~(InCondWait(x) /\ pc'[x] = WakePc(x))
    \/ idx'[x] # idx[x]
    \/ calls'[x] # calls[x]

\* thread x takes a step that reads or writes State or RegisteredWaits of e
TouchesEvent(x, e) ==
    \/ pc[x] = "idle" /\ pc'[x] # "idle" /\ call'[x].op = "WaitForEvent" /\ call'[x].event = e
    \/ pc[x] = "wfe_wake" /\ pc'[x] # "wfe_wake" /\ call[x].event = e
    \/ pc[x] = "wm_register" /\ call[x].events[idx[x] + 1] = e /\ Acts(x)
    \/ setCount'[e] # setCount[e] /\ calls'[x] # calls[x]
    \/ Acts(x) /\ (State'[e] # State[e] \/ RegisteredWaits'[e] # RegisteredWaits[e])

\* thread x takes a step that reads or writes Status, StillWaiting or
\* RefCount of record r
TouchesRecord(x, r) ==
    \/ x = r /\ pc[x] \in {"wm_register", "wm_wake"} /\ Acts(x)
    \/ pc[x] = "set_walk" /\ CurrentWait(x).Waiter = r
          /\ (Acts(x) \/ RegisteredWaits'[call[x].event] # RegisteredWaits[call[x].event])

\* thread x holds the Mutex of record r when its step accesses the record:
\* it holds it already, or the step starts by locking it (lines 394 and 458
\* of a visit, the return of the condition wait at lines 320 and 324)
HoldsRecord(x, r) ==
    \/ wfmoMutex[r] = x
    \/ wfmoMutex[r] = NoThread /\ pc[x] = "set_walk" /\ CurrentWait(x).Waiter = r
    \/ wfmoMutex[r] = NoThread /\ x = r /\ pc[x] = "wm_wake"

\* the fields of record r that its Mutex protects
Fields(r) == <<wfmo[r].Status, wfmo[r].StillWaiting, wfmo[r].RefCount>>

\* no thread holds two wait-record mutexes
OneRecordMutex ==
    \A t \in Threads : Cardinality({r \in Waiters : wfmoMutex[r] = t}) <= 1

\* a step respects the mutex of event e: while a thread holds it no other
\* thread reads or writes State or RegisteredWaits of e
EventDiscipline(e) ==
    Mutex[e] # NoThread
    => /\ \A x \in Threads \ {Mutex[e]} : ~TouchesEvent(x, e)
       /\ (State'[e] # State[e] \/ RegisteredWaits'[e] # RegisteredWaits[e])
          => \A x \in Threads \ {Mutex[e]} : ~Acts(x)

\* a step respects the mutex of record r: while a thread holds it no other
\* thread reads or writes the fields, and a step that writes them is the
\* step of a thread holding it
RecordDiscipline(r) ==
    /\ wfmoMutex[r] # NoThread
       => \A x \in Threads \ {wfmoMutex[r]} : ~TouchesRecord(x, r)
    /\ Fields(r)' # Fields(r)
       => \E x \in Threads : HoldsRecord(x, r) /\ \A y \in Threads \ {x} : ~Acts(y)

Visited(e) ==
    IF \E s \in Signalers : pc[s] \in {"set_walk", "set_wsignal"} /\ call[s].event = e
    THEN LET s == CHOOSE x \in Signalers :
                      pc[x] \in {"set_walk", "set_wsignal"} /\ call[x].event = e
         IN  (IF AutoReset[e] THEN 0 ELSE idx[s])
             + (IF pc[s] = "set_wsignal" THEN 1 ELSE 0)
    ELSE 0

\* the number of registrations of record r that no signaler has visited yet
Pending(r) ==
    Cardinality(UNION {{<<e, k>> : k \in {j \in (Visited(e) + 1)..Len(RegisteredWaits[e]) :
                                              RegisteredWaits[e][j].Waiter = r}} :
                       e \in Events})

\* the wait-all record r whose waiter has finished its registration pass and
\* is still waiting (lines 308-330, before line 333)
WaitAllPending(r) ==
    /\ pc[r] \in {"wm_cwait", "wm_wake"}
    /\ wfmo[r].mem = "live" /\ wfmo[r].WaitAll /\ wfmo[r].StillWaiting

\* a wait-all call that returns success makes the last reference drop and
\* destroys its record itself (lines 335-339)
SuccessDestroysRecord ==
    \A r \in Waiters :
        (wfmo[r].WaitAll /\ pc[r] \in {"wm_register", "wm_wake"}
                         /\ pc'[r] = "done" /\ result'[r] = 0)
        => /\ wfmo'[r].mem = "destroyed" /\ wfmo'[r].RefCount = 0
           /\ destroys'[r] = destroys[r] + 1

\* C20 as stated: for a wait-all record whose waiter has finished its
\* registration pass and is still waiting, EventsLeft equals the number of
\* RegisteredWaits entries that reference the record, and a wait-all call that
\* returns success drops the last reference and destroys the record itself.
C20_EventsLeftCountsEntries ==
    /\ [](\A r \in Waiters : WaitAllPending(r) => wfmo[r].Status = Entries(r))
    /\ [][SuccessDestroysRecord]_vars

\* C20 amended: for such a record EventsLeft equals the number of
\* RegisteredWaits entries referencing it that no signaler has visited yet
\* (a signaler counts an entry down before it removes it, still holding the
\* event's mutex), so with EventsLeft 0 no entry is left for a later
\* signaler; and a wait-all call that returns success drops the last
\* reference and destroys the record itself.
C20_EventsLeftCountsPending ==
    /\ [](\A r \in Waiters : WaitAllPending(r) => wfmo[r].Status = Pending(r))
    /\ [][SuccessDestroysRecord]_vars

\* C20 witness: a wait-all over two events has returned success after a
\* signaler delivered one of them to its record, which is destroyed.
C20_Witness ==
    \E r \in Waiters :
        /\ Done(r) /\ result[r] = 0 /\ wfmo[r].WaitAll
        /\ observed[r] # {} /\ wfmo[r].mem = "destroyed" /\ destroys[r] = 1

====
